---- MODULE Spec2Model ----
(***************************************************************************)
(* MessageContext of vk-io (structures/contexts/message.ts): a view over   *)
(* one message fragment, its stub/full lifecycle, the operations that call *)
(* the remote API or the upload client, and the derived accessors.         *)
(*                                                                         *)
(* An optional JavaScript value is a sequence of length 0 (undefined) or 1.*)
(* A text is a sequence of tokens, so that unescapeHTML is a computation.  *)
(* An asynchronous method is split at its await: the call it issues is     *)
(* parked in tasks until the remote side resolves or rejects it.           *)
(***************************************************************************)
EXTENDS Integers, Sequences, FiniteSets, TLC

VARIABLES view, tasks, last

vars == <<view, tasks, last>>

\* ------------------------------------------------------------ bounds

MaxSources == 2

\* ------------------------------------------------------ JavaScript values

None == <<>>

Some(x) == <<x>>

IsSome(o) == Len(o) > 0

Spread(a, b) == b @@ a

Has(obj, key) == key \in DOMAIN obj

Get(obj, key) == IF key \in DOMAIN obj THEN Some(obj[key]) ELSE None

RECURSIVE Flat(_)
Flat(ss) == IF Len(ss) = 0 THEN <<>> ELSE Head(ss) \o Flat(Tail(ss))

\* ------------------------------------------------- external collaborators

CHAT_PEER == 2000000000

getPeerType(id) ==
    IF CHAT_PEER < id THEN "chat"
    ELSE IF id < 0 THEN "group"
    ELSE "user"

unescapeToken(t) ==
    CASE t = "&lt;" -> "<"
      [] t = "&gt;" -> ">"
      [] t = "&quot;" -> "\""
      [] t = "&amp;" -> "&"
      [] t = "<br>" -> "\n"
      [] OTHER -> t

unescapeHTML(text) == [i \in 1..Len(text) |-> unescapeToken(text[i])]

ValidJSON == {"{a:1}", "{a:2}"}

JSONparse(s) ==
    CASE s = "{a:1}" -> [a |-> 1]
      [] s = "{a:2}" -> [a |-> 2]

ReattachableTypes == {"photo", "doc"}

transformAttachment(raw) ==
    [type |-> raw.type, id |-> raw.id, canBeAttached |-> raw.type \in ReattachableTypes]

transformAttachments(raws) == [i \in 1..Len(raws) |-> transformAttachment(raws[i])]

getAttachments(attachments, type) ==
    IF type = "undefined" THEN attachments
    ELSE SelectSeq(attachments, LAMBDA a : a.type = type)

MessageReply(payload) ==
    [payload |-> payload, attachments |-> transformAttachments(payload.attachments)]

MessageForward(payload) ==
    [payload |-> payload,
     attachments |-> transformAttachments(payload.attachments),
     forwards |-> [i \in 1..Len(payload.fwd_messages) |->
                      MessageReply(payload.fwd_messages[i])]]

MessageForwardsCollection(fwds) == [i \in 1..Len(fwds) |-> MessageForward(fwds[i])]

ForwardsGetAttachments(forwards, type) ==
    Flat([i \in 1..Len(forwards) |-> getAttachments(forwards[i].attachments, type)])

\* --------------------------------------------------------- sample inputs

photo(n) == [type |-> "photo", id |-> n]

doc(n) == [type |-> "doc", id |-> n]

link(n) == [type |-> "link", id |-> n]

Inner(id, atts, fwds) == [id |-> id, attachments |-> atts, fwd_messages |-> fwds]

Body(text, geo, payload, reply, fwds, atts, action, ref) ==
    [text |-> text, geo |-> geo, payload |-> payload, reply_message |-> reply,
     fwd_messages |-> fwds, attachments |-> atts, action |-> action, ref |-> ref]

GeoPoint == [type |-> "point", latitude |-> 55, longitude |-> 37]

InviteAction == [type |-> "chat_invite_user", member_id |-> 45]

Bodies ==
    { Body(Some(<<"hi">>), None, None, None, <<>>, <<>>, None, None),
      Body(Some(<<"a", "&amp;", "b">>), Some(GeoPoint), Some("{a:1}"),
           Some(Inner(21, <<doc(3), photo(4)>>, <<>>)),
           <<Inner(31, <<photo(5)>>, <<Inner(41, <<photo(9)>>, <<>>)>>),
             Inner(32, <<doc(6), photo(7)>>, <<>>)>>,
           <<photo(1), doc(2)>>, None, Some("promo")),
      Body(Some(<<>>), None, Some("not json"), None, <<>>, <<link(8)>>, None, None),
      Body(None, Some(GeoPoint), Some("{a:2}"), None,
           <<Inner(33, <<>>, <<>>)>>, <<>>, Some(InviteAction), None) }

Ids == {0, 7}

PeerIds == {123, CHAT_PEER + 1}

Fragment(id, peer, important, body) ==
    [id |-> id, conversation_message_id |-> 3, out |-> 0,
     peer_id |-> peer, from_id |-> IF peer = 123 THEN 123 ELSE 45,
     date |-> 1000, random_id |-> 0, important |-> important,
     text |-> body.text, geo |-> body.geo, payload |-> body.payload,
     reply_message |-> body.reply_message, fwd_messages |-> body.fwd_messages,
     attachments |-> body.attachments, action |-> body.action, ref |-> body.ref]

Fragments == { Fragment(id, peer, FALSE, b) : id \in Ids, peer \in PeerIds, b \in Bodies }

\* The polyfill with inline keyboards allowed.
DefaultClientInfoInline ==
    [button_actions |-> <<"text">>, inline_keyboard |-> TRUE, keyboard |-> TRUE,
     carousel |-> FALSE, lang_id |-> 0]

DefaultClientInfo ==
    [button_actions |-> <<"text">>, inline_keyboard |-> FALSE, keyboard |-> TRUE,
     carousel |-> FALSE, lang_id |-> 0]

RealClientInfo ==
    [button_actions |-> <<"text", "callback">>, inline_keyboard |-> TRUE,
     keyboard |-> TRUE, carousel |-> TRUE, lang_id |-> 3]

Envelope(message, client_info) == [message |-> message, client_info |-> client_info]

\* ------------------------------------------------------------- the view

\* The fields of a MessageContext before applyPayload has run.
Blank(filled) ==
    [filled |-> filled, payload |-> None, text |-> None, attachments |-> <<>>,
     replyMessage |-> None, forwards |-> <<>>, messagePayload |-> None]

message(v) == v.payload[1].message

clientInfo(v) == v.payload[1].client_info

Truthy(text) == IsSome(text) /\ Len(text[1]) > 0

\* applyPayload: the view it leaves and the error it threw, if any.
applyPayload(v, raw) ==
    LET payload == IF Has(raw, "client_info") THEN raw
                   ELSE Envelope(raw, DefaultClientInfo)
        msg == payload.message
        built == [v EXCEPT
                    !.payload = Some(payload),
                    !.text = IF Truthy(msg.text) THEN Some(unescapeHTML(msg.text[1]))
                             ELSE None,
                    !.attachments = transformAttachments(msg.attachments),
                    !.replyMessage = IF IsSome(msg.reply_message)
                                     THEN Some(MessageReply(msg.reply_message[1]))
                                     ELSE v.replyMessage,
                    !.forwards = MessageForwardsCollection(msg.fwd_messages)]
    IN  IF IsSome(msg.payload) /\ msg.payload[1] # ""
        THEN IF msg.payload[1] \in ValidJSON
             THEN [view |-> [built EXCEPT !.messagePayload = Some(JSONparse(msg.payload[1]))],
                   error |-> None]
             ELSE [view |-> built, error |-> Some("SyntaxError")]
        ELSE [view |-> built, error |-> None]

hasGeo(v) == IsSome(message(v).geo)

\* geo without the check of $filled.
geoUnchecked(v) ==
    IF ~hasGeo(v) THEN [throws |-> None, value |-> None]
    ELSE [throws |-> None, value |-> message(v).geo]

\* The geo getter: what reading it gives.
geo(v) ==
    IF ~hasGeo(v) THEN [throws |-> None, value |-> None]
    ELSE IF ~v.filled THEN [throws |-> Some("PAYLOAD_IS_NOT_FULL"), value |-> None]
    ELSE [throws |-> None, value |-> message(v).geo]

hasReplyMessage(v) == IsSome(v.replyMessage)

hasForwards(v) == Len(v.forwards) > 0

hasMessagePayload(v) == IsSome(message(v).payload) /\ message(v).payload[1] # ""

isChat(v) == getPeerType(message(v).peer_id) = "chat"

chatId(v) == IF ~isChat(v) THEN None ELSE Some(message(v).peer_id - CHAT_PEER)

isImportant(v) == message(v).important

\* getAllAttachments with the forwards before the reply.
getAllAttachmentsForwardsFirst(v, type) ==
    getAttachments(v.attachments, type)
    \o ForwardsGetAttachments(v.forwards, type)
    \o (IF IsSome(v.replyMessage) THEN getAttachments(v.replyMessage[1].attachments, type)
        ELSE <<>>)

getAllAttachments(v, type) ==
    getAttachments(v.attachments, type)
    \o (IF IsSome(v.replyMessage) THEN getAttachments(v.replyMessage[1].attachments, type)
        ELSE <<>>)
    \o ForwardsGetAttachments(v.forwards, type)

isEvent(v) == IsSome(message(v).action)

referralValue(v) == message(v).ref

\* pickProperties: the listed properties in the order listed, each key once.
RECURSIVE pickProperties(_)
pickProperties(keys) ==
    IF Len(keys) = 0 THEN <<>>
    ELSE LET front == pickProperties(SubSeq(keys, 1, Len(keys) - 1))
             key == keys[Len(keys)]
         IN  IF \E k \in 1..Len(front) : front[k] = key THEN front
             ELSE Append(front, key)

beforeAttachments(v) ==
    (IF isEvent(v) THEN <<"eventType", "eventMemberId", "eventText", "eventEmail">>
     ELSE <<>>)
    \o (IF hasReplyMessage(v) THEN <<"replyMessage">> ELSE <<>>)

afterAttachments(v, match) ==
    (IF hasMessagePayload(v) THEN <<"messagePayload">> ELSE <<>>)
    \o <<"isOutbox">>
    \o (IF IsSome(referralValue(v)) /\ referralValue(v)[1] # ""
        THEN <<"referralValue", "referralSource">> ELSE <<>>)
    \o (IF IsSome(match) THEN <<"$match">> ELSE <<>>)

\* kSerializeData with isOutbox pushed before the test of the message payload.
kSerializeDataOutboxFirst(v, match) ==
    pickProperties(<<"id", "conversationMessageId", "peerId", "peerType", "senderId",
                     "senderType", "createdAt", "updatedAt", "text">>
                   \o beforeAttachments(v)
                   \o <<"forwards", "attachments", "isOutbox">>
                   \o SelectSeq(afterAttachments(v, match), LAMBDA key : key # "isOutbox"))

\* kSerializeData: the names of the serialized fields, in order.
kSerializeData(v, match) ==
    pickProperties(<<"id", "conversationMessageId", "peerId", "peerType", "senderId",
                     "senderType", "createdAt", "updatedAt", "text">>
                   \o beforeAttachments(v)
                   \o <<"forwards", "attachments">>
                   \o afterAttachments(v, match))

\* ------------------------------------------------------- long-poll input

LongPollRecord(id, flags, peer, body) == <<4, id, flags, peer, 1000, body>>

transformMessage(u) ==
    [id |-> u[2], conversation_message_id |-> 3, out |-> (u[3] \div 2) % 2,
     peer_id |-> u[4], from_id |-> IF u[4] = 123 THEN 123 ELSE 45,
     date |-> u[5], random_id |-> 0, important |-> (u[3] \div 8) % 2 = 1,
     text |-> u[6].text, geo |-> u[6].geo, payload |-> u[6].payload,
     reply_message |-> u[6].reply_message, fwd_messages |-> u[6].fwd_messages,
     attachments |-> u[6].attachments, action |-> u[6].action, ref |-> u[6].ref]

LongPollFlags == {0, 8}

PollingOptions ==
    { [source |-> "polling", payload |-> LongPollRecord(id, fl, peer, b)] :
          id \in Ids, fl \in LongPollFlags, peer \in PeerIds, b \in Bodies }

BareWebhookOptions == { [source |-> "webhook", payload |-> f] : f \in Fragments }

WebhookOptions ==
    { [source |-> "webhook", payload |-> Envelope(f, RealClientInfo)] : f \in Fragments }

\* --------------------------------------------------- invocations in flight

Error(code, detail) == [code |-> code, detail |-> detail]

Call(method, params) == [method |-> method, params |-> params]

Task(op, stage, calls, uploads, loc) ==
    [op |-> op, stage |-> stage, calls |-> calls, uploads |-> uploads, loc |-> loc]

\* A method that returns or throws before any await.
Sync(op) == Task(op, "sync", <<>>, <<>>, <<>>)

\* What the caller of a method gets, with what the invocation did.
Outcome(task, error, ret) ==
    [op |-> task.op, status |-> IF error = None THEN "ok" ELSE "error", error |-> error,
     calls |-> task.calls, uploads |-> task.uploads, loc |-> task.loc, ret |-> ret]

Idle == Outcome(Sync("none"), None, None)

Constructed == ~(last.op = "constructor" /\ last.status = "error")

\* A context runs one operation at a time: the next starts when the last has returned.
CanInvoke == Constructed /\ last = Idle /\ tasks = <<>>

Remove(seq, i) == SubSeq(seq, 1, i - 1) \o SubSeq(seq, i + 1, Len(seq))

Park(task) == tasks' = Append(tasks, task) /\ UNCHANGED last

Awaiting(i, ops, stage) ==
    i \in 1..Len(tasks) /\ tasks[i].op \in ops /\ tasks[i].stage = stage

\* The caller's await has returned: it goes on with the same context.
delivered ==
    /\ Constructed /\ last # Idle
    /\ last' = Idle
    /\ UNCHANGED <<view, tasks>>

\* ------------------------------------------------------------ constructor

constructor(options) ==
    IF options.source = "polling"
    THEN applyPayload(Blank(FALSE), transformMessage(options.payload))
    ELSE applyPayload(Blank(TRUE), options.payload)

Constructs(options) ==
    /\ view = constructor(options).view
    /\ tasks = <<>>
    /\ last = Outcome(Task("constructor", "sync", <<>>, <<>>,
                           [source |-> options.source,
                            client_info |-> IF options.source = "polling" THEN None
                                            ELSE Get(options.payload, "client_info")]),
                      IF IsSome(constructor(options).error)
                      THEN Some(Error(constructor(options).error[1], 0)) ELSE None,
                      None)

Init ==
    \/ \E options \in PollingOptions : Constructs(options)
    \/ \E options \in BareWebhookOptions : Constructs(options)
    \/ \E options \in WebhookOptions : Constructs(options)

\* ------------------------------------------------------------ serialization

\* What a matcher left in $match, if it ran.
Matches == {None, Some(<<"hi">>)}

\* The context is serialized (inspected or logged) with $match as it stands.
serialize(match) ==
    /\ CanInvoke
    /\ last' = Outcome(Task("kSerializeData", "sync", <<>>, <<>>, [match |-> match]),
                       None, Some(kSerializeData(view, match)))
    /\ UNCHANGED <<view, tasks>>

\* ------------------------------------------------------ loadMessagePayload

\* The fetch without the branch for id 0.
fetchCallById(v) == Call("messages.getById", [message_ids |-> message(v).id])

fetchCall(v) ==
    IF message(v).id # 0
    THEN Call("messages.getById", [message_ids |-> message(v).id])
    ELSE Call("messages.getByConversationMessageId",
              [peer_id |-> message(v).peer_id,
               conversation_message_ids |-> message(v).conversation_message_id])

\* The early return without the test of force.
skipsFetchNever(v, force) == FALSE

skipsFetch(v, force) == v.filled /\ ~force

loadMessagePayload(force) ==
    /\ CanInvoke
    /\ IF skipsFetch(view, force)
       THEN /\ last' = Outcome(Sync("loadMessagePayload"), None, None)
            /\ UNCHANGED <<view, tasks>>
       ELSE /\ Park(Task("loadMessagePayload", "api", <<fetchCall(view)>>, <<>>,
                         [force |-> force]))
            /\ UNCHANGED view

FetchResponses == {<<>>} \cup { <<f>> : f \in Fragments }

\* loadMessagePayload that drops $filled when it fails.
loadedUnfilling(v, items) ==
    IF Len(items) = 0 THEN [view |-> [v EXCEPT !.filled = FALSE],
                            error |-> Some(Error("TypeError", 0))]
    ELSE LET r == applyPayload(v, items[1])
         IN  IF IsSome(r.error)
             THEN [view |-> [r.view EXCEPT !.filled = FALSE],
                   error |-> Some(Error(r.error[1], 0))]
             ELSE [view |-> [r.view EXCEPT !.filled = TRUE], error |-> None]

\* The code after the await of loadMessagePayload: [message] = items, applyPayload, $filled.
loaded(v, items) ==
    IF Len(items) = 0 THEN [view |-> v, error |-> Some(Error("TypeError", 0))]
    ELSE LET r == applyPayload(v, items[1])
         IN  IF IsSome(r.error)
             THEN [view |-> r.view, error |-> Some(Error(r.error[1], 0))]
             ELSE [view |-> [r.view EXCEPT !.filled = TRUE], error |-> None]

loadMessagePayloadFetched(i, items) ==
    /\ Awaiting(i, {"loadMessagePayload"}, "api")
    /\ view' = loaded(view, items).view
    /\ last' = Outcome(tasks[i], loaded(view, items).error, None)
    /\ tasks' = Remove(tasks, i)

\* ------------------------------------------------------- rejected calls

ApiErrors == {Error("API", 6), Error("API", 100)}

\* An awaited remote call rejects: no method catches, the caller gets the error.
apiRejected(i, err) ==
    /\ i \in 1..Len(tasks) /\ tasks[i].stage = "api"
    /\ last' = Outcome(tasks[i], Some(err), None)
    /\ tasks' = Remove(tasks, i)
    /\ UNCHANGED view

\* --------------------------------------------------------- editMessageText

EditTexts == {<<"new">>, <<"a", "&amp;", "b">>}

editTarget(v) ==
    IF message(v).id # 0 THEN [id |-> message(v).id]
    ELSE [conversation_message_id |-> message(v).conversation_message_id]

editMessage(v, params) ==
    Call("messages.edit",
         Spread(Spread(Spread(editTarget(v),
                              [attachment |-> SelectSeq(v.attachments,
                                                        LAMBDA a : a.canBeAttached),
                               message |-> v.text,
                               keep_forward_messages |-> 1,
                               keep_snippets |-> 1]),
                       params),
                [peer_id |-> message(v).peer_id, message_id |-> message(v).id]))

editMessageText(text) ==
    /\ CanInvoke
    /\ Park(Task("editMessageText", "api", <<editMessage(view, [message |-> Some(text)])>>,
                 <<>>, [message |-> text]))
    /\ UNCHANGED view

\* editMessageText with the text unescaped as applyPayload does.
editedUnescaped(v, text) == [v EXCEPT !.text = Some(unescapeHTML(text))]

\* The code after the await of editMessageText: this.text = message.
edited(v, text) == [v EXCEPT !.text = Some(text)]

editMessageTextEdited(i, response) ==
    /\ Awaiting(i, {"editMessageText"}, "api")
    /\ view' = edited(view, tasks[i].loc.message)
    /\ last' = Outcome(tasks[i], None, Some(response))
    /\ tasks' = Remove(tasks, i)

\* ---------------------------------------------------------- markAsImportant

IdsArgs == {None, Some(<<5>>)}

ImportantArgs == {None, Some([important |-> 0]), Some([important |-> 1])}

AckLists == {<<>>, <<5>>, <<0, 5>>, <<7>>}

Includes(seq, x) == \E k \in 1..Len(seq) : seq[k] = x

\* The default options asking for the flag as it is.
markAsImportantOptionsKeeping(v, arg) ==
    IF IsSome(arg) THEN arg[1]
    ELSE [important |-> IF isImportant(v) THEN 1 ELSE 0]

markAsImportantOptions(v, arg) ==
    IF IsSome(arg) THEN arg[1]
    ELSE [important |-> IF isImportant(v) THEN 0 ELSE 1]

markAsImportantIds(v, arg) == IF IsSome(arg) THEN arg[1] ELSE <<message(v).id>>

markAsImportant(ids, options) ==
    /\ CanInvoke
    /\ Park(Task("markAsImportant", "api",
                 <<Call("messages.markAsImportant",
                        Spread(markAsImportantOptions(view, options),
                               [message_ids |-> markAsImportantIds(view, ids)]))>>,
                 <<>>, [options |-> markAsImportantOptions(view, options),
                        defaults |-> ~IsSome(ids) /\ ~IsSome(options)]))
    /\ UNCHANGED view

\* markAsImportant without the test of the acknowledgment list.
markedUnacknowledged(v, messageIds, options) ==
    [v EXCEPT !.payload[1].message.important = (options.important # 0)]

\* The code after the await of markAsImportant.
marked(v, messageIds, options) ==
    IF Includes(messageIds, message(v).id)
    THEN [v EXCEPT !.payload[1].message.important = (options.important # 0)]
    ELSE v

markAsImportantAcked(i, messageIds) ==
    /\ Awaiting(i, {"markAsImportant"}, "api")
    /\ view' = marked(view, messageIds, tasks[i].loc.options)
    /\ last' = Outcome(tasks[i], None, Some(messageIds))
    /\ tasks' = Remove(tasks, i)

\* ------------------------------- setActivity, deleteMessage, restoreMessage

PlainOps == {"setActivity", "deleteMessage", "restoreMessage"}

setActivity ==
    /\ CanInvoke
    /\ Park(Task("setActivity", "api",
                 <<Call("messages.setActivity",
                        [peer_id |-> message(view).peer_id, type |-> "typing"])>>,
                 <<>>, <<>>))
    /\ UNCHANGED view

deleteMessage ==
    /\ CanInvoke
    /\ Park(Task("deleteMessage", "api",
                 <<Call("messages.delete", [spam |-> 0, message_ids |-> <<message(view).id>>])>>,
                 <<>>, <<>>))
    /\ UNCHANGED view

restoreMessage ==
    /\ CanInvoke
    /\ Park(Task("restoreMessage", "api",
                 <<Call("messages.restore", [message_id |-> message(view).id])>>,
                 <<>>, <<>>))
    /\ UNCHANGED view

\* ----------------------------------------------------- chat-only operations

ChatOps == {"renameChat", "deleteChatPhoto", "inviteUser", "kickUser",
            "pinMessage", "unpinMessage"}

\* assertIsChat that lets every peer through.
assertIsChatSkipped(v) == None

assertIsChat(v) == IF ~isChat(v) THEN Some(Error("IS_NOT_CHAT", 0)) ELSE None

eventMemberId(v) ==
    IF IsSome(message(v).action) THEN Some(message(v).action[1].member_id) ELSE None

\* A chat-only method that awaits one remote call: assertIsChat, then the call.
chatCall(op, call) ==
    /\ CanInvoke
    /\ IF IsSome(assertIsChat(view))
       THEN /\ last' = Outcome(Sync(op), assertIsChat(view), None)
            /\ UNCHANGED tasks
       ELSE Park(Task(op, "api", <<call>>, <<>>, <<>>))
    /\ UNCHANGED view

renameChat(title) ==
    chatCall("renameChat",
             Call("messages.editChat", [chat_id |-> chatId(view), title |-> title]))

deleteChatPhoto ==
    chatCall("deleteChatPhoto", Call("messages.deleteChatPhoto", [chat_id |-> chatId(view)]))

MemberArgs == {None, Some(46)}

inviteUser(id) ==
    chatCall("inviteUser",
             Call("messages.addChatUser",
                  [chat_id |-> chatId(view),
                   user_id |-> IF IsSome(id) THEN id ELSE eventMemberId(view)]))

kickUser(id) ==
    chatCall("kickUser",
             Call("messages.removeChatUser",
                  [chat_id |-> chatId(view),
                   member_id |-> IF IsSome(id) THEN id ELSE eventMemberId(view)]))

pinMessage ==
    chatCall("pinMessage",
             Call("messages.pin",
                  [peer_id |-> message(view).peer_id, message_id |-> message(view).id]))

unpinMessage ==
    chatCall("unpinMessage",
             Call("messages.unpin",
                  [peer_id |-> message(view).peer_id, message_id |-> message(view).id]))

PlainResponses == {0, 1}

\* What a method that only converts the response returns.
returned(op, response) ==
    IF op = "deleteMessage" THEN response
    ELSE IF op = "deleteChatPhoto" THEN 1
    ELSE IF response # 0 THEN 1 ELSE 0

\* The awaited call of a method that changes no local state resolves.
callReturned(i, response) ==
    /\ Awaiting(i, PlainOps \cup ChatOps, "api")
    /\ last' = Outcome(tasks[i], None, Some(returned(tasks[i].op, response)))
    /\ tasks' = Remove(tasks, i)
    /\ UNCHANGED view

\* ---------------------------------------------------------------- send

RandomIds == {11, 12}

SentIds == {8, 9}

Str(tokens) == [kind |-> "string", value |-> tokens]

Obj(fields) == [kind |-> "object", value |-> fields]

SendTexts == <<Str(<<"hi">>), Str(<<"a", "&lt;", "b">>), Obj([message |-> <<"yo">>])>>

SendParams == << <<>>, [random_id |-> 55], [peer_id |-> 456] >>

UploadParams == << <<>>, [random_id |-> 55] >>

sendOptions(v, randomId, text, params) ==
    Spread([peer_id |-> message(v).peer_id, random_id |-> randomId],
           IF text.kind # "object" THEN Spread([message |-> text.value], params)
           ELSE text.value)

\* send up to its await: the remote call it issues, parked with its locals.
sending(op, v, randomId, text, params, uploads) ==
    Task(op, "api", <<Call("messages.send", sendOptions(v, randomId, text, params))>>,
         uploads,
         [randomId |-> randomId, options |-> sendOptions(v, randomId, text, params),
          text |-> text, params |-> params])

send(text, params, randomId) ==
    /\ CanInvoke
    /\ Park(sending("send", view, randomId, text, params, <<>>))
    /\ UNCHANGED view

replyContent(v, text, params) ==
    Obj(Spread([reply_to |-> message(v).id],
               IF text.kind # "object" THEN Spread([message |-> text.value], params)
               ELSE text.value))

reply(text, params, randomId) ==
    /\ CanInvoke
    /\ Park(sending("reply", view, randomId, replyContent(view, text, params), <<>>, <<>>))
    /\ UNCHANGED view

sendSticker(id, randomId) ==
    /\ CanInvoke
    /\ Park(sending("sendSticker", view, randomId, Obj([sticker_id |-> id]), <<>>, <<>>))
    /\ UNCHANGED view

\* The message of the context that send builds once the call has returned id.
sentMessage(v, id, randomId, options) ==
    [id |-> id, conversation_message_id |-> 0,
     from_id |-> message(v).from_id, peer_id |-> message(v).peer_id,
     out |-> 1, important |-> FALSE, random_id |-> randomId,
     text |-> Get(options, "text"), date |-> 2000, attachments |-> <<>>,
     geo |-> None, payload |-> None, reply_message |-> None, fwd_messages |-> <<>>,
     action |-> None, ref |-> None]

\* The context send returns, without the reset of $filled.
sentContextFilled(v, id, randomId, options) ==
    constructor([source |-> "webhook",
                 payload |-> Envelope(sentMessage(v, id, randomId, options),
                                      clientInfo(v))]).view

sentContext(v, id, randomId, options) ==
    [constructor([source |-> "webhook",
                  payload |-> Envelope(sentMessage(v, id, randomId, options),
                                       clientInfo(v))]).view
        EXCEPT !.filled = FALSE]

SendOps == {"send", "reply", "sendSticker", "sendPhotos", "sendDocuments", "sendAudioMessage"}

sent(i, id) ==
    /\ Awaiting(i, SendOps, "api")
    /\ last' = Outcome([tasks[i] EXCEPT !.loc = Spread(tasks[i].loc, [id |-> id])], None,
                       Some(sentContext(view, id, tasks[i].loc.randomId,
                                        tasks[i].loc.options)))
    /\ tasks' = Remove(tasks, i)
    /\ UNCHANGED view

\* The caller goes on with the context that send returned.
adopt ==
    /\ tasks = <<>>
    /\ last # Idle
    /\ last.op \in SendOps /\ last.status = "ok"
    /\ view' = last.ret[1]
    /\ last' = Idle
    /\ UNCHANGED tasks

\* --------------------------------------------------------------- uploads

RawSources ==
    { [array |-> FALSE, items |-> <<1>>] }
    \cup { [array |-> TRUE, items |-> [k \in 1..n |-> k]] : n \in 0..MaxSources }

UploadOps == {"sendPhotos", "sendDocuments", "sendAudioMessage", "newChatPhoto"}

Upload(method, source, params) ==
    [method |-> method, source |-> source, params |-> params,
     state |-> "pending", value |-> None, at |-> 0]

\* What the upload client resolves with for a source.
Uploaded(method, source) ==
    [type |-> IF method = "messagePhoto" THEN "photo"
              ELSE IF method = "messageDocument" THEN "doc"
              ELSE IF method = "audioMessage" THEN "audio_message"
              ELSE "chat_photo",
     id |-> 100 + source]

uploadsOf(method, sources, v) ==
    [k \in 1..Len(sources) |-> Upload(method, sources[k], [peer_id |-> message(v).peer_id])]

\* The number of uploads that have resolved.
Done(uploads) == Cardinality({k \in 1..Len(uploads) : uploads[k].state = "done"})

\* The values of the uploads in the order in which they resolved.
promiseAllByCompletion(uploads) ==
    [n \in 1..Len(uploads) |->
        uploads[CHOOSE k \in 1..Len(uploads) : uploads[k].at = n].value[1]]

\* The values Promise.all resolves with: one per upload, in the order of the uploads.
promiseAll(uploads) == [k \in 1..Len(uploads) |-> uploads[k].value[1]]

Settled(uploads) == \A k \in 1..Len(uploads) : uploads[k].state = "done"

\* The content sendPhotos, sendDocuments and sendAudioMessage pass to send.
uploadedContent(op, uploads, params) ==
    Obj(Spread(params,
               [attachment |-> IF op = "sendAudioMessage" THEN uploads[1].value[1]
                               ELSE promiseAll(uploads)]))

\* A method that uploads and then sends, up to its await of the uploads.
uploadThenSend(op, method, sources, params) ==
    /\ CanInvoke
    /\ Park(Task(op, "upload", <<>>, uploadsOf(method, sources, view), [params |-> params]))
    /\ UNCHANGED view

sendPhotos(rawSources, params) ==
    uploadThenSend("sendPhotos", "messagePhoto", rawSources.items, params)

sendDocuments(rawSources, params) ==
    uploadThenSend("sendDocuments", "messageDocument", rawSources.items, params)

sendAudioMessage(source, params) ==
    uploadThenSend("sendAudioMessage", "audioMessage", <<source>>, params)

newChatPhoto(source) ==
    /\ CanInvoke
    /\ IF IsSome(assertIsChat(view))
       THEN /\ last' = Outcome(Sync("newChatPhoto"), assertIsChat(view), None)
            /\ UNCHANGED tasks
       ELSE Park(Task("newChatPhoto", "upload", <<>>,
                      <<Upload("chatPhoto", source, [chat_id |-> chatId(view)])>>, <<>>))
    /\ UNCHANGED view

fulfil(uploads, k) ==
    [uploads EXCEPT ![k].state = "done",
                    ![k].value = Some(Uploaded(uploads[k].method, uploads[k].source)),
                    ![k].at = Done(uploads) + 1]

Uploading(i, k) ==
    /\ i \in 1..Len(tasks) /\ tasks[i].stage = "upload"
    /\ k \in 1..Len(tasks[i].uploads) /\ tasks[i].uploads[k].state = "pending"

\* One upload resolves.
uploadFulfilled(i, k) ==
    /\ Uploading(i, k)
    /\ tasks' = [tasks EXCEPT ![i].uploads = fulfil(tasks[i].uploads, k)]
    /\ UNCHANGED <<view, last>>

AllUploaded(i) ==
    i \in 1..Len(tasks) /\ tasks[i].stage = "upload" /\ Settled(tasks[i].uploads)

\* Every upload has resolved (at once when there is none): the method goes on to send.
uploadsSettled(i, randomId) ==
    /\ AllUploaded(i)
    /\ tasks[i].op \in SendOps
    /\ tasks' = [tasks EXCEPT ![i] =
                    sending(tasks[i].op, view, randomId,
                            uploadedContent(tasks[i].op, tasks[i].uploads,
                                            tasks[i].loc.params),
                            <<>>, tasks[i].uploads)]
    /\ UNCHANGED <<view, last>>

newChatPhotoUploaded(i) ==
    /\ AllUploaded(i)
    /\ tasks[i].op = "newChatPhoto"
    /\ last' = Outcome(tasks[i], None, Some(tasks[i].uploads[1].value[1]))
    /\ tasks' = Remove(tasks, i)
    /\ UNCHANGED view

\* A rejected upload swallowed: the caller gets no error.
rejectionSwallowed(task, k) ==
    Outcome([task EXCEPT !.uploads[k].state = "failed"], None, None)

\* What the caller gets when upload k rejects: the await of it (or of Promise.all)
\* throws that upload's error, whatever the other uploads do.
rejection(task, k) ==
    Outcome([task EXCEPT !.uploads[k].state = "failed"],
            Some(Error("UPLOAD", task.uploads[k].source)), None)

uploadRejected(i, k) ==
    /\ Uploading(i, k)
    /\ last' = rejection(tasks[i], k)
    /\ tasks' = Remove(tasks, i)
    /\ UNCHANGED view

Next ==
    \/ \E force \in BOOLEAN : loadMessagePayload(force)
    \/ \E i \in 1..Len(tasks), items \in FetchResponses : loadMessagePayloadFetched(i, items)
    \/ \E text \in EditTexts : editMessageText(text)
    \/ \E i \in 1..Len(tasks) : editMessageTextEdited(i, 1)
    \/ \E t \in 1..Len(SendTexts), p \in 1..Len(SendParams), randomId \in RandomIds :
          send(SendTexts[t], SendParams[p], randomId)
    \/ \E t \in 1..Len(SendTexts), p \in 1..Len(SendParams), randomId \in RandomIds :
          reply(SendTexts[t], SendParams[p], randomId)
    \/ \E randomId \in RandomIds : sendSticker(60, randomId)
    \/ \E raw \in RawSources, p \in 1..Len(UploadParams) : sendPhotos(raw, UploadParams[p])
    \/ \E raw \in RawSources, p \in 1..Len(UploadParams) : sendDocuments(raw, UploadParams[p])
    \/ \E p \in 1..Len(UploadParams) : sendAudioMessage(1, UploadParams[p])
    \/ \E i \in 1..Len(tasks), id \in SentIds : sent(i, id)
    \/ adopt
    \/ delivered
    \/ \E match \in Matches : serialize(match)
    \/ \E i \in 1..Len(tasks), k \in 1..MaxSources : uploadFulfilled(i, k)
    \/ \E i \in 1..Len(tasks), randomId \in RandomIds : uploadsSettled(i, randomId)
    \/ \E i \in 1..Len(tasks), k \in 1..MaxSources : uploadRejected(i, k)
    \/ \E ids \in IdsArgs, options \in ImportantArgs : markAsImportant(ids, options)
    \/ \E i \in 1..Len(tasks), messageIds \in AckLists : markAsImportantAcked(i, messageIds)
    \/ setActivity
    \/ deleteMessage
    \/ restoreMessage
    \/ renameChat("title")
    \/ newChatPhoto(1)
    \/ \E i \in 1..Len(tasks) : newChatPhotoUploaded(i)
    \/ deleteChatPhoto
    \/ \E id \in MemberArgs : inviteUser(id)
    \/ \E id \in MemberArgs : kickUser(id)
    \/ pinMessage
    \/ unpinMessage
    \/ \E i \in 1..Len(tasks), response \in PlainResponses : callReturned(i, response)
    \/ \E i \in 1..Len(tasks), err \in ApiErrors : apiRejected(i, err)

Spec == Init /\ [][Next]_vars

\* ------------------------------------------------------------- claims

\* The context that a send-family method has just returned, if any.
Returned == IF last.op \in SendOps /\ last.status = "ok" THEN last.ret ELSE None

\* The contexts a caller holds: the one operated on and the one just returned.
Views == IF Constructed THEN <<view>> \o Returned ELSE <<>>

PayloadIncomplete == Some("PAYLOAD_IS_NOT_FULL")

C2_SentTextIsReturned ==
    (last.op = "send" /\ last.status = "ok" /\ last.loc.text.kind = "string")
        => last.ret[1].text = Some(last.loc.text.value)

\* C3: constructing or promoting a view over a fragment whose payload is not valid
\* JSON does not fail, and leaves messagePayload undefined.
C3_InvalidPayloadIsAbsorbed ==
    (/\ last.op \in {"constructor", "loadMessagePayload"}
     /\ hasMessagePayload(view)
     /\ message(view).payload[1] \notin ValidJSON)
        => (last.status = "ok" /\ view.messagePayload = None)

\* A method is invoked in this step, or an awaited call of one completes.
Invoked(ops) == CanInvoke /\ (last'.op \in ops \/ (tasks' # <<>> /\ tasks'[1].op \in ops))

Completed(ops) == tasks # <<>> /\ tasks[1].op \in ops /\ tasks' = <<>>

\* C4: markAsImportant changes the local important flag only when the call succeeds
\* and the view's own id is in the acknowledgment list, and then to the requested
\* value; otherwise (id not acknowledged, or the call fails) the view is unchanged.
\* This holds whatever ids were passed.
C4_MarkOnlyWhenAcknowledged ==
    [][Completed({"markAsImportant"}) =>
          IF last'.status = "ok" /\ Includes(last'.ret[1], message(view).id)
          THEN view' = [view EXCEPT !.payload[1].message.important =
                                       (tasks[1].calls[1].params.important # 0)]
          ELSE view' = view]_vars

C4_Witness ==
    /\ last.op = "markAsImportant" /\ last.status = "ok"
    /\ ~Includes(last.calls[1].params.message_ids, message(view).id)
    /\ Includes(last.ret[1], message(view).id)
    /\ last.calls[1].params.important = 1 /\ isImportant(view)

AllChatOps == ChatOps \cup {"newChatPhoto"}

NotAChat == Some(Error("IS_NOT_CHAT", 0))

\* C5: a chat-only operation invoked on a view whose peer is not a chat fails with
\* IS_NOT_CHAT, issues no remote call and no upload, and leaves the view unchanged.
C5_ChatOnlyFailsBeforeAnyCall ==
    [][(Invoked(AllChatOps) /\ ~isChat(view)) =>
          /\ tasks' = <<>>
          /\ last'.status = "error" /\ last'.error = NotAChat
          /\ last'.calls = <<>> /\ last'.uploads = <<>>
          /\ view' = view]_vars

C5_Witness ==
    /\ last.op = "newChatPhoto" /\ last.error = NotAChat
    /\ getPeerType(message(view).peer_id) = "user"

\* The fetch that promote is to issue for a view: by id when the id is nonzero, by
\* peer and conversation message id when it is 0.
IsFetchOf(v, call) ==
    IF message(v).id # 0
    THEN call.method = "messages.getById" /\ call.params = [message_ids |-> message(v).id]
    ELSE /\ call.method = "messages.getByConversationMessageId"
         /\ call.params = [peer_id |-> message(v).peer_id,
                           conversation_message_ids |-> message(v).conversation_message_id]

\* C6: promote on a stub issues exactly one fetch, by id when the id is nonzero and
\* conversation-scoped when it is 0; the view becomes full only when that fetch has
\* succeeded; when the fetch fails the caller gets that failure and the view is
\* left a stub with its fragment unchanged.
C6_PromoteFetchesOnce ==
    [][/\ (Invoked({"loadMessagePayload"}) /\ ~view.filled) =>
             /\ Len(tasks') = 1 /\ Len(tasks'[1].calls) = 1
             /\ IsFetchOf(view, tasks'[1].calls[1])
             /\ view' = view
       /\ Completed({"loadMessagePayload"}) =>
             /\ last'.op = "loadMessagePayload" /\ last'.calls = tasks[1].calls
             /\ last'.status = "error" => view'.filled = view.filled
             /\ (last'.status = "error" /\ last'.error[1].code = "API") => view' = view
       /\ (~view.filled /\ view'.filled) =>
             /\ Completed({"loadMessagePayload"})
             /\ last'.status = "ok" /\ Len(last'.calls) = 1]_vars

C6_Witness ==
    /\ last.op = "loadMessagePayload" /\ last.status = "ok" /\ view.filled
    /\ Len(last.calls) = 1 /\ ~last.loc.force
    /\ last.calls[1].method = "messages.getByConversationMessageId"

\* C7: after a successful promote the reply view, the forward chain and the
\* attachments are those of the fetched fragment: there is a reply view exactly
\* when the fetched fragment has a reply, one forward per fetched forward in order.
C7_PromoteRebuildsDerivedViews ==
    (last.op = "loadMessagePayload" /\ last.status = "ok" /\ Len(last.calls) = 1) =>
        /\ hasReplyMessage(view) <=> IsSome(message(view).reply_message)
        /\ hasReplyMessage(view) => view.replyMessage[1].payload = message(view).reply_message[1]
        /\ Len(view.forwards) = Len(message(view).fwd_messages)
        /\ \A k \in 1..Len(view.forwards) :
               view.forwards[k].payload = message(view).fwd_messages[k]
        /\ view.attachments = transformAttachments(message(view).attachments)

\* C8: promote without force on a full view issues no remote call and changes
\* nothing of the view; on a full view only a forced promote issues a fetch.
C8_PromoteOfFullIsNoOp ==
    [][(Invoked({"loadMessagePayload"}) /\ view.filled) =>
          /\ view' = view
          /\ IF tasks' = <<>>
             THEN last'.status = "ok" /\ last'.calls = <<>> /\ last'.ret = None
             ELSE tasks'[1].loc.force /\ Len(tasks'[1].calls) = 1]_vars

C8_Witness ==
    /\ last.op = "loadMessagePayload" /\ last.status = "ok" /\ last.calls = <<>>
    /\ view.filled /\ tasks = <<>>

Kinds == {"photo", "doc", "link", "undefined"}

\* The raw attachments of a fragment that match a kind, as (type, id) pairs.
RawMatching(raws, kind) ==
    LET keep == SelectSeq(raws, LAMBDA a : kind = "undefined" \/ a.type = kind)
    IN  [k \in 1..Len(keep) |-> <<keep[k].type, keep[k].id>>]

RECURSIVE ForwardsMatching(_, _)
ForwardsMatching(fwds, kind) ==
    IF Len(fwds) = 0 THEN <<>>
    ELSE RawMatching(Head(fwds).attachments, kind) \o ForwardsMatching(Tail(fwds), kind)

Pairs(attachments) == [k \in 1..Len(attachments) |-> <<attachments[k].type, attachments[k].id>>]

\* C9: getAllAttachments(kind) is the view's own matching attachments, then those of
\* the reply view (none without a reply), then those of each forward in chain order;
\* what is nested inside a forward contributes nothing.
C9_AllAttachmentsInOrder ==
    \A j \in 1..Len(Views), kind \in Kinds :
        Pairs(getAllAttachments(Views[j], kind))
            = RawMatching(message(Views[j]).attachments, kind)
              \o (IF hasReplyMessage(Views[j])
                  THEN RawMatching(Views[j].replyMessage[1].payload.attachments, kind)
                  ELSE <<>>)
              \o ForwardsMatching(message(Views[j]).fwd_messages, kind)

C9_Witness ==
    /\ Constructed
    /\ Pairs(getAllAttachments(view, "photo"))
           = << <<"photo", 1>>, <<"photo", 4>>, <<"photo", 5>>, <<"photo", 7>> >>
    /\ Len(message(view).fwd_messages[1].fwd_messages[1].attachments) = 1

FanOutOps == {"sendPhotos", "sendDocuments"}

\* C10: in sendPhotos and sendDocuments, when an upload fails the operation fails
\* with that upload's error and no send call is issued, whatever the other uploads
\* did; a send call is only ever issued with every upload fulfilled.
C10_FailedUploadAbortsBatch ==
    /\ \A i \in 1..Len(tasks) :
          tasks[i].op \in FanOutOps =>
              /\ \A k \in 1..Len(tasks[i].uploads) : tasks[i].uploads[k].state # "failed"
              /\ tasks[i].calls # <<>> =>
                    \A k \in 1..Len(tasks[i].uploads) : tasks[i].uploads[k].state = "done"
    /\ \A k \in 1..Len(last.uploads) :
          (last.op \in FanOutOps /\ last.uploads[k].state = "failed") =>
              /\ last.status = "error"
              /\ last.error = Some(Error("UPLOAD", last.uploads[k].source))
              /\ last.calls = <<>> /\ last.ret = None

C10_Witness ==
    /\ last.op = "sendPhotos" /\ Len(last.uploads) = 2
    /\ last.uploads[1].state = "failed" /\ last.uploads[2].state = "done"
    /\ last.calls = <<>>

\* What uploading source k through a fan-out method is to give.
UploadOf(op, k) == [type |-> IF op = "sendPhotos" THEN "photo" ELSE "doc", id |-> 100 + k]

FanOutSend(task) ==
    /\ Len(task.calls) = 1 /\ task.calls[1].method = "messages.send"
    /\ \A k \in 1..Len(task.uploads) : task.uploads[k].state = "done"
    /\ task.calls[1].params.attachment = [k \in 1..Len(task.uploads) |-> UploadOf(task.op, k)]

\* C11: sendPhotos and sendDocuments start every upload before awaiting any; when
\* all of them succeed exactly one send call is issued, whose attachment list has
\* one entry per source, the i-th being the upload of the i-th source, in whatever
\* order the uploads completed.
C11_FanOutKeepsInputOrder ==
    /\ [](\A i \in 1..Len(tasks) :
             (tasks[i].op \in FanOutOps /\ tasks[i].stage = "api") => FanOutSend(tasks[i]))
    /\ []((last.op \in FanOutOps /\ last.status = "ok") => FanOutSend(last))
    /\ [][Invoked(FanOutOps) =>
             /\ Len(tasks') = 1 /\ tasks'[1].stage = "upload" /\ tasks'[1].calls = <<>>
             /\ \A k \in 1..Len(tasks'[1].uploads) :
                    /\ tasks'[1].uploads[k].state = "pending"
                    /\ tasks'[1].uploads[k].source = k]_vars

C11_Witness ==
    /\ last.op = "sendPhotos" /\ last.status = "ok" /\ Len(last.uploads) = 2
    /\ last.uploads[2].at = 1 /\ last.uploads[1].at = 2
    /\ last.calls[1].params.attachment = <<UploadOf("sendPhotos", 1), UploadOf("sendPhotos", 2)>>

\* C12: editMessageText changes the local text only once the edit call has
\* succeeded, and then to exactly the text given; when the call fails the caller
\* gets that failure and the view is unchanged.
C12_EditTextOnlyOnSuccess ==
    [][/\ Invoked({"editMessageText"}) =>
             /\ view' = view
             /\ Len(tasks') = 1 /\ tasks'[1].calls[1].method = "messages.edit"
       /\ Completed({"editMessageText"}) =>
             IF last'.status = "ok"
             THEN view' = [view EXCEPT !.text = tasks[1].calls[1].params.message]
             ELSE view' = view /\ last'.error[1] \in ApiErrors /\ last'.ret = None]_vars

C12_Witness ==
    /\ last.op = "editMessageText" /\ last.status = "ok"
    /\ last.calls[1].params.message = Some(<<"a", "&amp;", "b">>)
    /\ view.text = Some(<<"a", "&amp;", "b">>)

SynthesizedCapabilities ==
    [button_actions |-> <<"text">>, keyboard |-> TRUE, inline_keyboard |-> FALSE,
     carousel |-> FALSE, lang_id |-> 0]

Fetched == last.op = "loadMessagePayload" /\ last.status = "ok" /\ Len(last.calls) = 1

\* C14: an input without a capabilities envelope (a long-poll record, a bare webhook
\* fragment, a fetched fragment) is given exactly the capabilities button_actions
\* {text}, keyboard, no inline keyboard, no carousel, lang_id 0; an input that
\* carries capabilities keeps them as they are.
C14_BareInputGetsDefaultCapabilities ==
    /\ (last.op = "constructor" /\ last.status = "ok") =>
           IF last.loc.client_info = None
           THEN clientInfo(view) = SynthesizedCapabilities
           ELSE clientInfo(view) = last.loc.client_info[1]
    /\ Fetched => clientInfo(view) = SynthesizedCapabilities

C14_Witness ==
    /\ last.op = "constructor" /\ last.status = "ok"
    /\ last.loc.source = "webhook" /\ last.loc.client_info = None
    /\ clientInfo(view).button_actions = <<"text">> /\ clientInfo(view).lang_id = 0

If(cond, keys) == IF cond THEN keys ELSE <<>>

\* The field order of the serialized view, as the specification lists it.
SerializedOrder(v, match) ==
    <<"id", "conversationMessageId", "peerId", "peerType", "senderId", "senderType",
      "createdAt", "updatedAt", "text">>
    \o If(IsSome(message(v).action), <<"eventType", "eventMemberId", "eventText", "eventEmail">>)
    \o If(IsSome(v.replyMessage), <<"replyMessage">>)
    \o <<"forwards", "attachments">>
    \o If(IsSome(message(v).payload) /\ message(v).payload # Some(""), <<"messagePayload">>)
    \o <<"isOutbox">>
    \o If(IsSome(message(v).ref) /\ message(v).ref # Some(""), <<"referralValue", "referralSource">>)
    \o If(IsSome(match), <<"$match">>)

\* C15: the serialized view lists id .. text, then the four event fields iff the
\* message is an event, then replyMessage iff there is a reply, then forwards and
\* attachments, then messagePayload iff the message has a payload, then isOutbox
\* always, then the two referral fields iff a referral value is set, then $match
\* iff it was populated; no field appears twice and no other field appears.
C15_SerializedFieldOrder ==
    last.op = "kSerializeData" =>
        /\ last.ret[1] = SerializedOrder(view, last.loc.match)
        /\ \A i, j \in 1..Len(last.ret[1]) : last.ret[1][i] = last.ret[1][j] => i = j

C15_Witness ==
    /\ last.op = "kSerializeData" /\ IsSome(last.loc.match)
    /\ isEvent(view) /\ hasMessagePayload(view) /\ ~hasReplyMessage(view)
    /\ Len(last.ret[1]) = 18
    /\ last.ret[1][16] = "messagePayload" /\ last.ret[1][17] = "isOutbox"
    /\ last.ret[1][18] = "$match"

\* The caller turns to the context that send returned: another view from here on.
Adopting ==
    /\ last.op \in SendOps /\ last.status = "ok" /\ tasks = <<>>
    /\ view' = last.ret[1] /\ view' # view

C17_CachedPayloadIsCurrent ==
    ((last.op = "constructor" /\ last.status = "ok") \/ Fetched) =>
        /\ hasMessagePayload(view) <=> IsSome(view.messagePayload)
        /\ IsSome(view.messagePayload) =>
              /\ IsSome(message(view).payload)
              /\ message(view).payload[1] \in ValidJSON
              /\ view.messagePayload[1] = JSONparse(message(view).payload[1])

\* C18: a successful promote replaces the view's capabilities with the synthesized
\* defaults, whatever they were; no other operation on a view (a promote that does
\* nothing or fails, editMessageText, markAsImportant, send, reply) changes them.
C18_OnlyPromoteResetsCapabilities ==
    [][~Adopting =>
          /\ (Completed({"loadMessagePayload"}) /\ last'.status = "ok") =>
                clientInfo(view') = SynthesizedCapabilities
          /\ clientInfo(view') # clientInfo(view) =>
                (Completed({"loadMessagePayload"}) /\ last'.status = "ok")]_vars

\* C19: for every send or reply, whatever content and options the caller passes,
\* the random_id recorded in the returned stub is the random_id carried by the send
\* call that produced it, and it is the one generated for this invocation.
C19_StubRandomIdIsTheCallsRandomId ==
    (last.op \in {"send", "reply"} /\ last.status = "ok") =>
        /\ message(last.ret[1]).random_id = last.calls[1].params.random_id
        /\ last.calls[1].params.random_id = last.loc.randomId

\* What a default markAsImportant acknowledged with messageIds leaves of a view.
DefaultMark(v, messageIds) == marked(v, messageIds, markAsImportantOptions(v, None))

\* C20: markAsImportant on its defaults targets the view's own id and asks for the
\* negation of the local important flag; acknowledged with the view's id it flips
\* the flag, so two such calls in a row restore it; acknowledged without the
\* view's id it changes nothing, so the next default call asks for the same value.
C20_DefaultMarkToggles ==
    /\ [][(Invoked({"markAsImportant"}) /\ tasks' # <<>> /\ tasks'[1].loc.defaults) =>
             tasks'[1].calls[1].params =
                 [important |-> IF message(view).important THEN 0 ELSE 1,
                  message_ids |-> <<message(view).id>>]]_vars
    /\ [][(Completed({"markAsImportant"}) /\ tasks[1].loc.defaults /\ last'.status = "ok") =>
             IF Includes(last'.ret[1], message(view).id)
             THEN view' = [view EXCEPT !.payload[1].message.important =
                                          ~message(view).important]
             ELSE view' = view]_vars
    /\ [](Constructed =>
             /\ DefaultMark(DefaultMark(view, <<message(view).id>>), <<message(view).id>>) = view
             /\ isImportant(DefaultMark(view, <<message(view).id>>)) = ~isImportant(view)
             /\ markAsImportantOptions(DefaultMark(view, <<>>), None)
                    = markAsImportantOptions(view, None))

C20_Witness ==
    /\ last.op = "markAsImportant" /\ last.status = "ok" /\ last.loc.defaults
    /\ Includes(last.ret[1], message(view).id)
    /\ last.calls[1].params.important = 0 /\ ~isImportant(view)

====
